---- MODULE Spec2Model ----
(***************************************************************************)
(* CBC padding-oracle attack: the demo oracle (DemoOracle.py) and the      *)
(* attack script (CBC Padding Oracle Attack.py).                           *)
(*                                                                         *)
(* Python bytes objects and lists are functions on 0..n-1, so that every   *)
(* index of the model is the index of the source.  The model is parametric *)
(* in the block size and in the width of a byte: the source has            *)
(* BLOCKSIZE = 16 and bytes of 8 bits (range(0x100)); the model is checked *)
(* with a smaller block and a narrower byte, which keeps every relation    *)
(* the code relies on (1 <= BLOCKSIZE - i <= BLOCKSIZE < 2^ByteBits).      *)
(***************************************************************************)
EXTENDS Integers, Sequences, FiniteSets, TLC

\* ------------------------------------------------------------------ bounds
\* Block size in bytes (16 in DemoOracle.py); at least 2, below ByteMod.
BLOCKSIZE == 3
\* Bits of a byte (8 in the source).
ByteBits == 3
\* Number of secret keys the oracle may have drawn.
NumKeys == 2
\* Number of IVs Oracle.encrypt may have drawn.
NumIVs == 2
\* Longest message, in bytes.
MaxMsgLen == 3
\* Most calls a client of the Oracle object makes.
MaxCalls == 3

\* ------------------------------------------------------------------- bytes
RECURSIVE Pow2(_)
Pow2(n) == IF n = 0 THEN 1 ELSE 2 * Pow2(n - 1)

\* 0x100: the number of byte values, range(0x100) and "% 0x100".
ByteMod == Pow2(ByteBits)
Byte == 0 .. (ByteMod - 1)

RECURSIVE BitXor(_, _, _)
BitXor(a, b, n) ==
    IF n = 0 THEN 0
    ELSE (((a % 2) + (b % 2)) % 2) + 2 * BitXor(a \div 2, b \div 2, n - 1)

XorTable == [a \in Byte |-> [b \in Byte |-> BitXor(a, b, ByteBits)]]

\* x ^ y on two byte values.
ByteXor(a, b) == XorTable[a][b]

\* len(b) of a bytes object or list.
len(b) == Cardinality(DOMAIN b)

\* b"" and [].
Empty == [j \in {} |-> 0]

\* b[lo:hi] for 0 <= lo, with Python's clipping of hi.
Slice(b, lo, hi) ==
    LET h == IF hi > len(b) THEN len(b) ELSE hi
    IN  [j \in 0 .. (h - lo - 1) |-> b[lo + j]]

\* a + b on bytes objects.
Concat(a, b) ==
    [j \in 0 .. (len(a) + len(b) - 1) |->
        IF j < len(a) THEN a[j] ELSE b[j - len(a)]]

\* [v] * n and bytes.fromhex("00" * n).
Repeat(v, n) == [j \in 0 .. (n - 1) |-> v]

\* xor(a, b): the byte-wise XOR of two sequences of the same length.
xor(a, b) == [j \in DOMAIN a |-> ByteXor(a[j], b[j])]

\* ------------------------------------------------------------ block cipher
\* AES under a key is a keyed permutation of blocks; the model has a small
\* keyed permutation in its place (rotate, add the round key, add a constant).
BlockEncrypt(k, x) ==
    [j \in 0 .. (BLOCKSIZE - 1) |->
        (ByteXor(x[(j + 1) % BLOCKSIZE], k[j]) + j + 1) % ByteMod]

BlockDecrypt(k, y) ==
    [j \in 0 .. (BLOCKSIZE - 1) |->
        LET s == (j + BLOCKSIZE - 1) % BLOCKSIZE
        IN  ByteXor((y[s] + ByteMod - (s + 1)) % ByteMod, k[s])]

\* cipher.encrypt(data) of an AES.MODE_CBC cipher whose chaining value is prev.
RECURSIVE CBCEncrypt(_, _, _)
CBCEncrypt(k, prev, data) ==
    IF len(data) = 0 THEN Empty
    ELSE LET c == BlockEncrypt(k, xor(Slice(data, 0, BLOCKSIZE), prev))
         IN  Concat(c, CBCEncrypt(k, c, Slice(data, BLOCKSIZE, len(data))))

\* cipher.decrypt(ct) of an AES.MODE_CBC cipher created with iv = prev:
\* every block is block-decrypted and XORed with the block before it.
RECURSIVE CBCDecrypt(_, _, _)
CBCDecrypt(k, prev, data) ==
    IF len(data) = 0 THEN Empty
    ELSE LET c == Slice(data, 0, BLOCKSIZE)
         IN  Concat(xor(BlockDecrypt(k, c), prev),
                    CBCDecrypt(k, c, Slice(data, BLOCKSIZE, len(data))))

\* Crypto.Util.Padding.pad(data, BLOCKSIZE), PKCS#7.
pad(data) ==
    LET padding_len == BLOCKSIZE - (len(data) % BLOCKSIZE)
    IN  Concat(data, Repeat(padding_len, padding_len))

\* Mutant: unpad looks at the last byte only; the bytes before it are not
\* compared with it.
unpad_ok_LastByteOnly(padded) ==
    LET n == len(padded)
    IN  /\ n # 0
        /\ n % BLOCKSIZE = 0
        /\ LET padding_len == padded[n - 1]
           IN  /\ padding_len >= 1
               /\ padding_len <= (IF BLOCKSIZE < n THEN BLOCKSIZE ELSE n)

\* Whether Crypto.Util.Padding.unpad(padded, BLOCKSIZE) returns (TRUE) or
\* raises ValueError (FALSE).
unpad_ok(padded) ==
    LET n == len(padded)
    IN  /\ n # 0
        /\ n % BLOCKSIZE = 0
        /\ LET padding_len == padded[n - 1]
           IN  /\ padding_len >= 1
               /\ padding_len <= (IF BLOCKSIZE < n THEN BLOCKSIZE ELSE n)
               /\ \A j \in (n - padding_len) .. (n - 1) : padded[j] = padding_len

\* ------------------------------------------------------------------ oracle
\* Oracle.encrypt with the IV the fresh cipher drew: (iv, ct).
Oracle_encrypt(k, v, message) ==
    [iv |-> v, ct |-> CBCEncrypt(k, v, pad(message))]

\* Oracle.decrypt_check(ct, iv): (d_k, valid).
Oracle_decrypt_check(k, c, v) ==
    LET d_k == CBCDecrypt(k, v, c)
    IN  [d_k |-> d_k, valid |-> unpad_ok(d_k)]

\* A stand-in with the interface of Oracle that reports valid = false always.
AlwaysInvalid_decrypt_check(k, c, v) ==
    [d_k |-> CBCDecrypt(k, v, c), valid |-> FALSE]

\* A stand-in that answers as Oracle does, except that it reports
\* valid = false for every probe of the ciphertext block `deaf`.
RejectsBlock_decrypt_check(k, c, v, deaf) ==
    LET res == Oracle_decrypt_check(k, c, v)
    IN  [d_k |-> res.d_k, valid |-> res.valid /\ c # deaf]

\* A stand-in that reports the valid bit of Oracle and a raw value that does
\* not depend on the ciphertext: a string of zero bytes.
RawHidden_decrypt_check(k, c, v) ==
    [d_k |-> Repeat(0, len(c)), valid |-> Oracle_decrypt_check(k, c, v).valid]

\* A stand-in that answers as it likes, and may answer differently when a
\* call is repeated: the answers it may give to one call.
Arbitrary_decrypt_check(k, c, v) ==
    {[d_k |-> Repeat(0, len(c)), valid |-> b] : b \in BOOLEAN}

\* ------------------------------------------------------------------ inputs
\* os.urandom(BLOCKSIZE): the keys the oracle may hold.
KeyOf(n) == [j \in 0 .. (BLOCKSIZE - 1) |-> (3 * n + 5 * j) % ByteMod]
Keys == {KeyOf(n) : n \in 1 .. NumKeys}

\* cipher.iv: the random IVs a fresh cipher may draw.
IVOf(n) == [j \in 0 .. (BLOCKSIZE - 1) |-> (n * n + (n + 1) * j) % ByteMod]
IVs == {IVOf(n) : n \in 1 .. NumIVs}

\* message.encode("utf-8"): the messages, as their bytes.
Letters == {1, 2}
Messages == UNION {[0 .. (n - 1) -> Letters] : n \in 0 .. MaxMsgLen}

\* The oracle objects attack_single_block is handed: the repository's Oracle,
\* a stand-in whose decrypt_check rejects everything, or a stand-in that
\* rejects every probe of the second ciphertext block.
Oracles == {"Oracle", "AlwaysInvalid", "RejectsSecond"}

\* ------------------------------------------------------------------- state
VARIABLES
    oracle,      \* which oracle object the script holds
    key,         \* oracle.key
    message,     \* the encoded plaintext handed to oracle.encrypt
    iv,          \* __main__: iv
    ct,          \* __main__: ct
    blocks,      \* __main__: blocks, a list (0-based) of blocks
    plain,       \* __main__: plain
    prev_block,  \* __main__: prev_block
    block_num,   \* __main__: block_num
    pc,          \* position in the script
    arg_iv,      \* attack_single_block: parameter iv
    arg_block,   \* attack_single_block: parameter block
    iv_list,     \* attack_single_block: iv_list
    i,           \* attack_single_block: i
    g,           \* attack_single_block: g
    iv1,         \* attack_single_block: iv1
    r,           \* attack_single_block: r
    iv2,         \* attack_single_block: iv2
    r2,          \* attack_single_block: r2
    calls,       \* history: the decrypt_check calls of the running invocation
    writes,      \* history: the assignments to iv_list of the running invocation
    invoked,     \* history: the invocations of attack_single_block
    returned,    \* history: the blocks attack_single_block returned
    printed,     \* history: what print(plain) wrote, a one-element list at most
    log,         \* history: the calls a client made on the Oracle object
    driver,      \* "sequential" (__main__) or "any_order" (the blocks in any order)
    cur,         \* any order: the block whose recovery is running, or -1
    frames,      \* any order: the suspended recoveries, by block number
    placed,      \* any order: the recovered blocks, each at its block position
    run1         \* two runs: what the first of two runs of the script did, or <<>>

vars == <<oracle, key, message, iv, ct, blocks, plain, prev_block, block_num,
          pc, arg_iv, arg_block, iv_list, i, g, iv1, r, iv2, r2,
          calls, writes, invoked, returned, printed, log,
          driver, cur, frames, placed, run1>>

any_vars == <<driver, cur, frames, placed>>
env_vars == <<oracle, key, log, any_vars, run1>>
main_vars == <<message, iv, ct, blocks, plain, prev_block, block_num>>
locals == <<arg_iv, arg_block, iv_list, i, g, iv1, r, iv2, r2>>

\* oracle.decrypt_check(c, v) on the oracle object the script holds.
decrypt_check(c, v) ==
    CASE oracle = "Oracle" -> Oracle_decrypt_check(key, c, v)
      [] oracle = "AlwaysInvalid" -> AlwaysInvalid_decrypt_check(key, c, v)
      [] oracle = "RawHidden" -> RawHidden_decrypt_check(key, c, v)
      [] OTHER ->
           RejectsBlock_decrypt_check(key, c, v,
                                      Slice(ct, BLOCKSIZE, 2 * BLOCKSIZE))

\* The guesses on which the arbitrary oracle is free to answer either way:
\* every guess at the last index, the first and the last guess at the other
\* indices. It rejects the rest.
Flaky(ii, gg) == ii = BLOCKSIZE - 1 \/ gg \in {0, ByteMod - 1}

\* The answers oracle.decrypt_check(c, v) may give to the probe of guess gg
\* at index ii: one answer, unless the oracle is the arbitrary one.
Answers(c, v, ii, gg) ==
    IF oracle = "Arbitrary"
    THEN {a \in Arbitrary_decrypt_check(key, c, v) : a.valid => Flaky(ii, gg)}
    ELSE {decrypt_check(c, v)}

\* The entry the history keeps of one decrypt_check call. Of the calls on the
\* arbitrary oracle it keeps the number only.
Logged(c, v, res, cf, ii, gg) ==
    IF oracle = "Arbitrary"
    THEN [ct |-> Empty, iv |-> Empty, d_k |-> Empty, valid |-> FALSE,
          confirm |-> FALSE, i |-> 0, g |-> 0]
    ELSE [ct |-> c, iv |-> v, d_k |-> res.d_k, valid |-> res.valid,
          confirm |-> cf, i |-> ii, g |-> gg]

\* [ct[i : i + BLOCKSIZE] for i in range(0, len(ct), BLOCKSIZE)]
SplitBlocks(c) ==
    [k \in 0 .. (((len(c) + BLOCKSIZE - 1) \div BLOCKSIZE) - 1) |->
        Slice(c, k * BLOCKSIZE, k * BLOCKSIZE + BLOCKSIZE)]

\* Mutant: the bytes after i are XORed with the padding value of the index
\* solved before, BLOCKSIZE - (i + 1).
BuildIV1_OldPad(ivl, ii, gg) ==
    Concat(Concat(Slice(ivl, 0, ii), Repeat(gg, 1)),
           xor(Slice(ivl, ii + 1, len(ivl)),
               Repeat(BLOCKSIZE - (ii + 1), BLOCKSIZE - (ii + 1))))

\* iv1: iv_list[:i] + g + xor(iv_list[i+1:], [BLOCKSIZE - i] * (BLOCKSIZE - (i+1)))
BuildIV1(ivl, ii, gg) ==
    Concat(Concat(Slice(ivl, 0, ii), Repeat(gg, 1)),
           xor(Slice(ivl, ii + 1, len(ivl)),
               Repeat(BLOCKSIZE - ii, BLOCKSIZE - (ii + 1))))

\* Mutant: the confirmation probe repeats iv1, no byte is changed.
BuildIV2_Same(v1, ii) == v1

\* Mutant: the confirmation probe changes the byte at i, the guess, and not
\* the byte before it.
BuildIV2_AtGuess(v1, ii) ==
    Concat(Concat(Slice(v1, 0, ii), Repeat((v1[ii] + 1) % ByteMod, 1)),
           Slice(v1, ii + 1, len(v1)))

\* iv2: iv1[:i-1] + ((iv1[i-1] + 1) % 0x100) + iv1[i:]
BuildIV2(v1, ii) ==
    Concat(Concat(Slice(v1, 0, ii - 1), Repeat((v1[ii - 1] + 1) % ByteMod, 1)),
           Slice(v1, (ii - 1) + 1, len(v1)))

\* Mutant: the accepted guess is stored as it is, not XORed with the padding
\* value.
Accepted_Guess(ivl, ii, gg) == [ivl EXCEPT ![ii] = gg]

\* iv_list[i] = g ^ (BLOCKSIZE - i)
Accepted(ivl, ii, gg) == [ivl EXCEPT ![ii] = ByteXor(gg, BLOCKSIZE - ii)]

Init ==
    /\ oracle \in Oracles
    /\ key \in Keys
    /\ message = Empty /\ iv = Empty /\ ct = Empty /\ blocks = Empty
    /\ plain = Empty /\ prev_block = Empty /\ block_num = 0
    /\ pc = "main"
    /\ arg_iv = Empty /\ arg_block = Empty /\ iv_list = Empty
    /\ i = 0 /\ g = 0 /\ iv1 = Empty /\ r = FALSE /\ iv2 = Empty /\ r2 = FALSE
    /\ calls = <<>> /\ writes = <<>> /\ invoked = <<>> /\ returned = <<>>
    /\ printed = <<>> /\ log = <<>>
    /\ driver = "sequential" /\ cur = -1 /\ frames = Empty /\ placed = Empty
    /\ run1 = <<>>

\* __main__: iv, ct = oracle.encrypt(plaintext); blocks; plain = b""; prev_block = iv
Encrypt ==
    /\ pc = "main"
    /\ \E m \in Messages, v \in IVs :
         LET e == Oracle_encrypt(key, v, m)
         IN  /\ message' = m
             /\ iv' = e.iv
             /\ ct' = e.ct
             /\ blocks' = SplitBlocks(e.ct)
             /\ prev_block' = e.iv
    /\ plain' = Empty
    /\ block_num' = 0
    /\ pc' = "loop"
    /\ UNCHANGED <<env_vars, locals, calls, writes, invoked, returned, printed>>

\* Mutant: iv_list starts as the predecessor block, not as zeros.
CallAttack_SeedsPredecessor ==
    /\ pc = "loop"
    /\ block_num < len(blocks)
    /\ arg_iv' = prev_block
    /\ arg_block' = blocks[block_num]
    /\ iv_list' = prev_block
    /\ i' = BLOCKSIZE - 1
    /\ g' = 0
    /\ iv1' = Empty /\ r' = FALSE /\ iv2' = Empty /\ r2' = FALSE
    /\ calls' = <<>>
    /\ writes' = <<>>
    /\ invoked' = Append(invoked, [k |-> block_num, iv |-> prev_block,
                                   block |-> blocks[block_num]])
    /\ pc' = "probe"
    /\ UNCHANGED <<env_vars, main_vars, returned, printed>>

\* for block_num, block in enumerate(blocks): attack_single_block(prev_block, block, oracle)
\* up to the first probe: iv_list is all zeros, i = BLOCKSIZE - 1, g = 0.
CallAttack ==
    /\ pc = "loop"
    /\ block_num < len(blocks)
    /\ arg_iv' = prev_block
    /\ arg_block' = blocks[block_num]
    /\ iv_list' = Repeat(0, BLOCKSIZE)
    /\ i' = BLOCKSIZE - 1
    /\ g' = 0
    /\ iv1' = Empty /\ r' = FALSE /\ iv2' = Empty /\ r2' = FALSE
    /\ calls' = <<>>
    /\ writes' = <<>>
    /\ invoked' = Append(invoked, [k |-> block_num, iv |-> prev_block,
                                   block |-> blocks[block_num]])
    /\ pc' = "probe"
    /\ UNCHANGED <<env_vars, main_vars, returned, printed>>

\* iv1 = ...; dk, r = oracle.decrypt_check(block, iv1)
Probe ==
    /\ pc = "probe"
    /\ LET v == BuildIV1(iv_list, i, g)
       IN  \E res \in Answers(arg_block, v, i, g) :
             /\ iv1' = v
             /\ r' = res.valid
             /\ calls' = Append(calls, Logged(arg_block, v, res, FALSE, i, g))
    /\ pc' = "check"
    /\ UNCHANGED <<env_vars, main_vars, arg_iv, arg_block, iv_list, i, g,
                   iv2, r2, writes, invoked, returned, printed>>

\* if r: is false: the next guess
Reject ==
    /\ pc = "check"
    /\ ~r
    /\ pc' = "next_g"
    /\ UNCHANGED <<env_vars, main_vars, locals, calls, writes, invoked, returned, printed>>

\* Mutant: the confirmation probe is made at every index that has a byte
\* before it, not at the last index only.
Think_BelowLast ==
    /\ pc = "check"
    /\ r
    /\ i > 0
    /\ LET v == BuildIV2(iv1, i)
       IN  \E res \in Answers(arg_block, v, i, g) :
             /\ iv2' = v
             /\ r2' = res.valid
             /\ calls' = Append(calls, Logged(arg_block, v, res, TRUE, i, g))
    /\ pc' = "check2"
    /\ UNCHANGED <<env_vars, main_vars, arg_iv, arg_block, iv_list, i, g,
                   iv1, r, writes, invoked, returned, printed>>

\* if r: if i == BLOCKSIZE - 1: iv2 = ...; dk2, r2 = oracle.decrypt_check(block, iv2)
Think ==
    /\ pc = "check"
    /\ r
    /\ i = BLOCKSIZE - 1
    /\ LET v == BuildIV2(iv1, i)
       IN  \E res \in Answers(arg_block, v, i, g) :
             /\ iv2' = v
             /\ r2' = res.valid
             /\ calls' = Append(calls, Logged(arg_block, v, res, TRUE, i, g))
    /\ pc' = "check2"
    /\ UNCHANGED <<env_vars, main_vars, arg_iv, arg_block, iv_list, i, g,
                   iv1, r, writes, invoked, returned, printed>>

\* if r2: iv_list[i] = g ^ (BLOCKSIZE - i); break
Confirmed ==
    /\ pc = "check2"
    /\ r2
    /\ iv_list' = Accepted(iv_list, i, g)
    /\ writes' = Append(writes, [i |-> i, v |-> iv_list'[i]])
    /\ pc' = "next_i"
    /\ UNCHANGED <<env_vars, main_vars, arg_iv, arg_block, i, g, iv1, r,
                   iv2, r2, calls, invoked, returned, printed>>

\* Mutant: a guess whose confirmation failed is stored before the search goes on.
Fail_Stores ==
    /\ pc = "check2"
    /\ ~r2
    /\ iv_list' = Accepted(iv_list, i, g)
    /\ writes' = Append(writes, [i |-> i, v |-> iv_list'[i]])
    /\ pc' = "next_g"
    /\ UNCHANGED <<env_vars, main_vars, arg_iv, arg_block, i, g, iv1, r,
                   iv2, r2, calls, invoked, returned, printed>>

\* Mutant: a guess whose confirmation failed is probed again.
Fail_Retries ==
    /\ pc = "check2"
    /\ ~r2
    /\ pc' = "probe"
    /\ UNCHANGED <<env_vars, main_vars, locals, calls, writes, invoked, returned, printed>>

\* else: continue
Fail ==
    /\ pc = "check2"
    /\ ~r2
    /\ pc' = "next_g"
    /\ UNCHANGED <<env_vars, main_vars, locals, calls, writes, invoked, returned, printed>>

\* Mutant: the byte stored below the last index is read from the raw value
\* decrypt_check returned, dk[i].
Found_StoresRaw ==
    /\ pc = "check"
    /\ r
    /\ i # BLOCKSIZE - 1
    /\ iv_list' = [iv_list EXCEPT ![i] = calls[Len(calls)].d_k[i]]
    /\ writes' = Append(writes, [i |-> i, v |-> iv_list'[i]])
    /\ pc' = "next_i"
    /\ UNCHANGED <<env_vars, main_vars, arg_iv, arg_block, i, g, iv1, r,
                   iv2, r2, calls, invoked, returned, printed>>

\* if r: else (i != BLOCKSIZE - 1): iv_list[i] = g ^ (BLOCKSIZE - i); break
Found ==
    /\ pc = "check"
    /\ r
    /\ i # BLOCKSIZE - 1
    /\ iv_list' = Accepted(iv_list, i, g)
    /\ writes' = Append(writes, [i |-> i, v |-> iv_list'[i]])
    /\ pc' = "next_i"
    /\ UNCHANGED <<env_vars, main_vars, arg_iv, arg_block, i, g, iv1, r,
                   iv2, r2, calls, invoked, returned, printed>>

\* for g in range(0x100): the next value of g
NextGuess ==
    /\ pc = "next_g"
    /\ g < ByteMod - 1
    /\ g' = g + 1
    /\ pc' = "probe"
    /\ UNCHANGED <<env_vars, main_vars, arg_iv, arg_block, iv_list, i,
                   iv1, r, iv2, r2, calls, writes, invoked, returned, printed>>

\* Mutant: after the last guess a default byte is stored and the attack goes on.
Exhausted_Default ==
    /\ pc = "next_g"
    /\ g = ByteMod - 1
    /\ iv_list' = [iv_list EXCEPT ![i] = 0]
    /\ writes' = Append(writes, [i |-> i, v |-> 0])
    /\ pc' = "next_i"
    /\ UNCHANGED <<env_vars, main_vars, arg_iv, arg_block, i, g, iv1, r,
                   iv2, r2, calls, invoked, returned, printed>>

\* Mutant: the else branch leaves the guess loop as a break does, without exit(1).
Exhausted_Break ==
    /\ pc = "next_g"
    /\ g = ByteMod - 1
    /\ pc' = "next_i"
    /\ UNCHANGED <<env_vars, main_vars, locals, calls, writes, invoked, returned, printed>>

\* for g ... else: print("failed to find correct padding"); exit(1)
Exhausted ==
    /\ pc = "next_g"
    /\ g = ByteMod - 1
    /\ pc' = "exit1"
    /\ UNCHANGED <<env_vars, main_vars, locals, calls, writes, invoked, returned, printed>>

\* Mutant: the guesses of the next index go on from the guess accepted at
\* the index before, g is not set back to 0.
NextIndex_KeepsGuess ==
    /\ pc = "next_i"
    /\ i > 0
    /\ i' = i - 1
    /\ pc' = "probe"
    /\ UNCHANGED <<env_vars, main_vars, arg_iv, arg_block, iv_list, g,
                   iv1, r, iv2, r2, calls, writes, invoked, returned, printed>>

\* for i in reversed(range(BLOCKSIZE)): the next value of i
NextIndex ==
    /\ pc = "next_i"
    /\ i > 0
    /\ i' = i - 1
    /\ g' = 0
    /\ pc' = "probe"
    /\ UNCHANGED <<env_vars, main_vars, arg_iv, arg_block, iv_list,
                   iv1, r, iv2, r2, calls, writes, invoked, returned, printed>>

\* Mutant: the recovered array is XORed with the block under attack, not
\* with its predecessor.
Return_XorsBlock ==
    /\ pc = "next_i"
    /\ i = 0
    /\ driver = "sequential"
    /\ LET plain_block == xor(iv_list, arg_block)
       IN  /\ plain' = Concat(plain, plain_block)
           /\ returned' = Append(returned, plain_block)
    /\ prev_block' = arg_block
    /\ block_num' = block_num + 1
    /\ pc' = "loop"
    /\ UNCHANGED <<env_vars, message, iv, ct, blocks, locals, calls, writes, invoked,
                   printed>>

\* Mutant: the driver chains the recovered plaintext block, not the
\* ciphertext block, as the next predecessor.
Return_PrevPlain ==
    /\ pc = "next_i"
    /\ i = 0
    /\ driver = "sequential"
    /\ LET plain_block == xor(iv_list, arg_iv)
       IN  /\ plain' = Concat(plain, plain_block)
           /\ returned' = Append(returned, plain_block)
           /\ prev_block' = plain_block
    /\ block_num' = block_num + 1
    /\ pc' = "loop"
    /\ UNCHANGED <<env_vars, message, iv, ct, blocks, locals, calls, writes, invoked,
                   printed>>

\* plain = xor(iv_list, iv); return plain
\* __main__: plain += plain_block; prev_block = block; the next block_num
Return ==
    /\ pc = "next_i"
    /\ i = 0
    /\ driver = "sequential"
    /\ LET plain_block == xor(iv_list, arg_iv)
       IN  /\ plain' = Concat(plain, plain_block)
           /\ returned' = Append(returned, plain_block)
    /\ prev_block' = arg_block
    /\ block_num' = block_num + 1
    /\ pc' = "loop"
    /\ UNCHANGED <<env_vars, message, iv, ct, blocks, locals, calls, writes, invoked,
                   printed>>

\* print(plain): the loop over the blocks is over
Finish ==
    /\ pc = "loop"
    /\ block_num = len(blocks)
    /\ printed' = <<plain>>
    /\ pc' = "done"
    /\ UNCHANGED <<env_vars, main_vars, locals, calls, writes, invoked, returned>>

Next ==
    \/ Encrypt
    \/ CallAttack
    \/ Probe
    \/ Reject
    \/ Think
    \/ Confirmed
    \/ Fail
    \/ Found
    \/ NextGuess
    \/ Exhausted
    \/ NextIndex
    \/ Return
    \/ Finish

Spec == Init /\ [][Next]_vars

\* ------------------------------------------------- a client of the Oracle
\* DemoOracle.py's __main__ calls encrypt and then decrypt_check on one Oracle
\* object; the client here makes up to MaxCalls such calls, in any order, with
\* short messages, and with blocks and IVs it chose or got from encrypt.
ClientMessages == {m \in Messages : len(m) <= 1}
ClientCiphertexts ==
    IVs \cup {log[n].ct : n \in {x \in 1 .. Len(log) : log[x].op = "encrypt"}}

InitOracle == Init /\ oracle = "Oracle"

\* Mutant: encrypt draws a fresh key, as if self.key were set in encrypt.
ClientEncrypt_Rekeys ==
    /\ Len(log) < MaxCalls
    /\ \E m \in ClientMessages, v \in IVs, k \in Keys :
         LET e == Oracle_encrypt(k, v, m)
         IN  /\ key' = k
             /\ log' = Append(log, [op |-> "encrypt", key |-> k, message |-> m,
                                    iv |-> e.iv, ct |-> e.ct,
                                    d_k |-> Empty, valid |-> FALSE])
    /\ UNCHANGED <<oracle, run1, any_vars, main_vars, pc, locals, calls, writes,
                   invoked, returned, printed>>

\* iv, ct = oracle.encrypt(message): the oracle's key is what it was.
ClientEncrypt ==
    /\ Len(log) < MaxCalls
    /\ \E m \in ClientMessages, v \in IVs :
         LET e == Oracle_encrypt(key, v, m)
         IN  log' = Append(log, [op |-> "encrypt", key |-> key, message |-> m,
                                 iv |-> e.iv, ct |-> e.ct,
                                 d_k |-> Empty, valid |-> FALSE])
    /\ UNCHANGED <<oracle, key, run1, any_vars, main_vars, pc, locals, calls, writes,
                   invoked, returned, printed>>

\* d_k, valid = oracle.decrypt_check(ct, iv)
ClientDecryptCheck ==
    /\ Len(log) < MaxCalls
    /\ \E c \in ClientCiphertexts, v \in IVs :
         LET res == Oracle_decrypt_check(key, c, v)
         IN  log' = Append(log, [op |-> "decrypt_check", key |-> key,
                                 message |-> Empty, iv |-> v, ct |-> c,
                                 d_k |-> res.d_k, valid |-> res.valid])
    /\ UNCHANGED <<oracle, key, run1, any_vars, main_vars, pc, locals, calls, writes,
                   invoked, returned, printed>>

NextOracle ==
    \/ ClientEncrypt
    \/ ClientDecryptCheck

SpecOracle == InitOracle /\ [][NextOracle]_vars

\* ------------------------------------------------ the blocks in any order
\* After the sequential run, the same (iv, ct) is recovered again with the
\* same oracle by a driver that starts the blocks in any order, hands each its
\* predecessor (the IV, or the ciphertext block before it), may suspend the
\* running recovery before the first probe of an index and before a
\* confirmation probe to run another one, and places each result at its
\* block position.  The recoveries themselves take the steps of
\* attack_single_block above.
Frame ==
    [arg_iv |-> arg_iv, arg_block |-> arg_block, iv_list |-> iv_list, i |-> i,
     g |-> g, iv1 |-> iv1, r |-> r, iv2 |-> iv2, r2 |-> r2, pc |-> pc,
     calls |-> calls, writes |-> writes]

StartReplay ==
    /\ pc = "done"
    /\ driver = "sequential"
    /\ driver' = "any_order"
    /\ cur' = -1
    /\ frames' = Empty
    /\ placed' = [k \in DOMAIN blocks |-> Empty]
    /\ pc' = "idle"
    /\ UNCHANGED <<oracle, key, log, run1, main_vars, locals, calls, writes, invoked,
                   returned, printed>>

\* attack_single_block(predecessor of block k, blocks[k], oracle), up to the
\* first probe.
StartBlock ==
    /\ pc = "idle"
    /\ \E k \in DOMAIN blocks :
         /\ placed[k] = Empty
         /\ k \notin DOMAIN frames
         /\ arg_iv' = (IF k = 0 THEN iv ELSE blocks[k - 1])
         /\ arg_block' = blocks[k]
         /\ cur' = k
         /\ invoked' = Append(invoked, [k |-> k,
                                        iv |-> IF k = 0 THEN iv ELSE blocks[k - 1],
                                        block |-> blocks[k]])
    /\ iv_list' = Repeat(0, BLOCKSIZE)
    /\ i' = BLOCKSIZE - 1
    /\ g' = 0
    /\ iv1' = Empty /\ r' = FALSE /\ iv2' = Empty /\ r2' = FALSE
    /\ calls' = <<>>
    /\ writes' = <<>>
    /\ pc' = "probe"
    /\ UNCHANGED <<oracle, key, log, run1, main_vars, returned, printed, driver,
                   frames, placed>>

\* The running recovery is suspended before an oracle call.
Yield ==
    /\ driver = "any_order"
    /\ cur # -1
    /\ \/ pc = "probe" /\ g = 0
       \/ pc = "check" /\ r /\ i = BLOCKSIZE - 1
    /\ frames' = [k \in DOMAIN frames \cup {cur} |->
                     IF k = cur THEN Frame ELSE frames[k]]
    /\ cur' = -1
    /\ arg_iv' = Empty /\ arg_block' = Empty /\ iv_list' = Empty
    /\ i' = 0 /\ g' = 0 /\ iv1' = Empty /\ r' = FALSE /\ iv2' = Empty /\ r2' = FALSE
    /\ calls' = <<>> /\ writes' = <<>>
    /\ pc' = "idle"
    /\ UNCHANGED <<oracle, key, log, run1, main_vars, invoked, returned, printed,
                   driver, placed>>

\* A suspended recovery goes on where it was.
Resume ==
    /\ pc = "idle"
    /\ \E k \in DOMAIN frames :
         LET f == frames[k]
         IN  /\ arg_iv' = f.arg_iv /\ arg_block' = f.arg_block
             /\ iv_list' = f.iv_list /\ i' = f.i /\ g' = f.g
             /\ iv1' = f.iv1 /\ r' = f.r /\ iv2' = f.iv2 /\ r2' = f.r2
             /\ calls' = f.calls /\ writes' = f.writes
             /\ pc' = f.pc
             /\ cur' = k
             /\ frames' = [x \in DOMAIN frames \ {k} |-> frames[x]]
    /\ UNCHANGED <<oracle, key, log, run1, main_vars, invoked, returned, printed,
                   driver, placed>>

\* Mutant: the final XOR takes the script's global prev_block, not the
\* parameter iv.
ReturnPlaced_Global ==
    /\ pc = "next_i"
    /\ i = 0
    /\ driver = "any_order"
    /\ LET plain_block == xor(iv_list, prev_block)
       IN  /\ placed' = [placed EXCEPT ![cur] = plain_block]
           /\ returned' = Append(returned, plain_block)
    /\ cur' = -1
    /\ pc' = "idle"
    /\ UNCHANGED <<oracle, key, log, run1, main_vars, locals, calls, writes, invoked,
                   printed, driver, frames>>

\* plain = xor(iv_list, iv); return plain: the block is placed at its position
ReturnPlaced ==
    /\ pc = "next_i"
    /\ i = 0
    /\ driver = "any_order"
    /\ LET plain_block == xor(iv_list, arg_iv)
       IN  /\ placed' = [placed EXCEPT ![cur] = plain_block]
           /\ returned' = Append(returned, plain_block)
    /\ cur' = -1
    /\ pc' = "idle"
    /\ UNCHANGED <<oracle, key, log, run1, main_vars, locals, calls, writes, invoked,
                   printed, driver, frames>>

\* The blocks placed so far, concatenated in block order.
RECURSIVE ConcatPlaced(_)
ConcatPlaced(n) ==
    IF n = 0 THEN Empty ELSE Concat(ConcatPlaced(n - 1), placed[n - 1])

\* Every block is placed: the result is their concatenation.
FinishAnyOrder ==
    /\ pc = "idle"
    /\ DOMAIN frames = {}
    /\ \A k \in DOMAIN blocks : placed[k] # Empty
    /\ printed' = Append(printed, ConcatPlaced(len(blocks)))
    /\ pc' = "done_any"
    /\ UNCHANGED <<oracle, key, log, run1, main_vars, locals, calls, writes, invoked,
                   returned, any_vars>>

NextAnyOrder ==
    \/ Encrypt
    \/ CallAttack
    \/ Probe
    \/ Reject
    \/ Think
    \/ Confirmed
    \/ Fail
    \/ Found
    \/ NextGuess
    \/ Exhausted
    \/ NextIndex
    \/ Return
    \/ Finish
    \/ StartReplay
    \/ StartBlock
    \/ Yield
    \/ Resume
    \/ ReturnPlaced
    \/ FinishAnyOrder

SpecAnyOrder == Init /\ [][NextAnyOrder]_vars

\* ------------------------------------------- one block, chosen by the caller
\* attack_single_block takes any block and any predecessor: the driver is run
\* on one ciphertext block that was not made by oracle.encrypt, so that the
\* intermediate value D_K(C) of the block is the caller's choice.

\* The bytes D_K(C)[j] may be: small values, the padding value of index j, and
\* the byte whose only valid guess at index j is the last one.
IntermediateBytes(j) ==
    {0, 1, 2, BLOCKSIZE - j, ByteXor(ByteMod - 1, BLOCKSIZE - j)}

\* D_K(C) of the blocks handed to attack_single_block.
Intermediates ==
    {d \in [0 .. (BLOCKSIZE - 1) -> Byte] :
        \A j \in 0 .. (BLOCKSIZE - 1) : d[j] \in IntermediateBytes(j)}

\* __main__ after line 104, with (iv, ct) one block of the caller's choice in
\* place of the output of oracle.encrypt. The oracle is the Oracle, the
\* arbitrary one or the one that rejects everything; the last two do not look
\* at the block, they get one block.
InitBlock ==
    /\ oracle \in {"Oracle", "Arbitrary", "AlwaysInvalid"}
    /\ key \in Keys
    /\ \E d \in Intermediates : ct = BlockEncrypt(key, d)
    /\ oracle # "Oracle" =>
          key = KeyOf(1) /\ ct = BlockEncrypt(key, Repeat(0, BLOCKSIZE))
    /\ iv = IVOf(1)
    /\ message = Empty
    /\ blocks = SplitBlocks(ct)
    /\ plain = Empty /\ prev_block = iv /\ block_num = 0
    /\ pc = "loop"
    /\ arg_iv = Empty /\ arg_block = Empty /\ iv_list = Empty
    /\ i = 0 /\ g = 0 /\ iv1 = Empty /\ r = FALSE /\ iv2 = Empty /\ r2 = FALSE
    /\ calls = <<>> /\ writes = <<>> /\ invoked = <<>> /\ returned = <<>>
    /\ printed = <<>> /\ log = <<>>
    /\ driver = "sequential" /\ cur = -1 /\ frames = Empty /\ placed = Empty
    /\ run1 = <<>>

NextBlock ==
    \/ CallAttack
    \/ Probe
    \/ Reject
    \/ Think
    \/ Confirmed
    \/ Fail
    \/ Found
    \/ NextGuess
    \/ Exhausted
    \/ NextIndex
    \/ Return
    \/ Finish

SpecBlock == InitBlock /\ [][NextBlock]_vars

\* ----------------------------------------------------- two runs of the script
\* The script is run on one block, and when it has ended, by print or by
\* exit(1), it is run again on the same key and block with one thing changed:
\* the oracle object, or the predecessor block. run1 keeps what the first run
\* did.
InitTwoRuns ==
    /\ InitBlock
    /\ oracle # "Arbitrary"
    /\ key = KeyOf(1)

\* What is kept of a run that has ended.
RunRecord ==
    [oracle |-> oracle, iv |-> iv, calls |-> calls, iv_list |-> iv_list,
     plain |-> plain, pc |-> pc]

\* The second run: the Oracle is replaced by the stand-in that gives the same
\* valid bit and another raw value.
RerunOtherOracle ==
    /\ pc = "done"
    /\ run1 = <<>>
    /\ oracle = "Oracle"
    /\ run1' = RunRecord
    /\ oracle' = "RawHidden"
    /\ plain' = Empty /\ prev_block' = iv /\ block_num' = 0
    /\ printed' = <<>>
    /\ pc' = "loop"
    /\ UNCHANGED <<key, log, any_vars, message, iv, ct, blocks, locals, calls,
                   writes, invoked, returned>>

\* The second run: the block is given another predecessor.
RerunOtherPredecessor ==
    /\ pc \in {"done", "exit1"}
    /\ run1 = <<>>
    /\ run1' = RunRecord
    /\ \E p \in IVs \ {iv} :
          /\ iv' = p
          /\ prev_block' = p
    /\ plain' = Empty /\ block_num' = 0
    /\ printed' = <<>>
    /\ pc' = "loop"
    /\ UNCHANGED <<oracle, key, log, any_vars, message, ct, blocks, locals, calls,
                   writes, invoked, returned>>

NextTwoRuns ==
    \/ CallAttack
    \/ Probe
    \/ Reject
    \/ Think
    \/ Confirmed
    \/ Fail
    \/ Found
    \/ NextGuess
    \/ Exhausted
    \/ NextIndex
    \/ Return
    \/ Finish
    \/ RerunOtherOracle
    \/ RerunOtherPredecessor

SpecTwoRuns == InitTwoRuns /\ [][NextTwoRuns]_vars

\* ------------------------------------------------------------------ claims
\* The padded plaintext oracle.encrypt encrypted.
Padded == pad(message)

\* A padded plaintext without its trailing pad.
StripPad(padded) == Slice(padded, 0, len(padded) - padded[len(padded) - 1])

\* The positions of attack_single_block.
AttackPcs == {"probe", "check", "check2", "next_g", "next_i"}

\* D_K(C): the block cipher's decryption of the block under attack.
TrueD == BlockDecrypt(key, arg_block)

\* C1 (round trip): when the driver has run to its end against the Oracle that
\* encrypted the message, plain is the padded plaintext byte for byte, it is
\* what is printed, and without its trailing pad it is the message.
RoundTrip ==
    (pc = "done" /\ oracle = "Oracle") =>
        /\ plain = Padded
        /\ printed = <<Padded>>
        /\ StripPad(plain) = message

\* A message of exactly one block, recovered with its full extra pad block.
RoundTripWitness ==
    /\ pc = "done"
    /\ oracle = "Oracle"
    /\ len(message) = BLOCKSIZE
    /\ len(plain) = 2 * BLOCKSIZE
    /\ Slice(plain, BLOCKSIZE, 2 * BLOCKSIZE) = Repeat(BLOCKSIZE, BLOCKSIZE)
    /\ StripPad(plain) = message

\* C2 (exhaustion): against the oracle that rejects every probe, no byte of
\* iv_list is ever assigned, no block is returned, at most one probe per guess
\* is made, and the only state with no next step is the failure exit.
Exhaustion ==
    oracle = "AlwaysInvalid" =>
        /\ writes = <<>>
        /\ returned = <<>>
        /\ plain = Empty
        /\ pc \in AttackPcs => (iv_list = Repeat(0, BLOCKSIZE) /\ i = BLOCKSIZE - 1)
        /\ Len(calls) <= ByteMod
        /\ pc # "done"
        /\ pc # "exit1" => ENABLED Next

\* The failure exit, after every guess was probed once.
ExhaustionWitness ==
    /\ oracle = "AlwaysInvalid"
    /\ pc = "exit1"
    /\ Len(calls) = ByteMod
    /\ \A n \in 1 .. ByteMod : calls[n].g = n - 1 /\ ~calls[n].valid

\* A first probe at the last index that the oracle accepted although the
\* guess is not the one that makes the last byte 1.
FalsePositive(c) ==
    /\ ~c.confirm
    /\ c.valid
    /\ c.i = BLOCKSIZE - 1
    /\ ByteXor(c.g, 1) # TrueD[BLOCKSIZE - 1]

\* C3 (last-byte ambiguity): with the Oracle, a false positive at index
\* BLOCKSIZE - 1 is followed by a confirmation probe that reports invalid; no
\* byte is stored for it, the next probe is the first probe of guess g + 1 at
\* the same index, and the byte finally stored at BLOCKSIZE - 1 is D_K(C)'s.
LastByteAmbiguity ==
    (oracle = "Oracle" /\ pc \in AttackPcs) =>
        /\ \A n \in 1 .. Len(calls) :
             FalsePositive(calls[n]) =>
                /\ n = Len(calls) => (pc = "check" /\ writes = <<>>)
                /\ n < Len(calls) =>
                     /\ calls[n + 1].confirm
                     /\ ~calls[n + 1].valid
                     /\ calls[n + 1].g = calls[n].g
                /\ n + 1 = Len(calls) =>
                     /\ writes = <<>>
                     /\ i = BLOCKSIZE - 1
                     /\ \/ pc \in {"check2", "next_g"} /\ g = calls[n].g
                                                        /\ g < ByteMod - 1
                        \/ pc = "probe" /\ g = calls[n].g + 1
                /\ n + 1 < Len(calls) =>
                     /\ ~calls[n + 2].confirm
                     /\ calls[n + 2].i = BLOCKSIZE - 1
                     /\ calls[n + 2].g = calls[n].g + 1
        /\ \A n \in 1 .. Len(writes) :
             writes[n].i = BLOCKSIZE - 1 => writes[n].v = TrueD[BLOCKSIZE - 1]

\* A false positive was met and rejected, and the true byte stored after it.
LastByteAmbiguityWitness ==
    /\ oracle = "Oracle"
    /\ pc = "next_i"
    /\ i = BLOCKSIZE - 1
    /\ \E n \in 1 .. Len(calls) : FalsePositive(calls[n])
    /\ iv_list[BLOCKSIZE - 1] = TrueD[BLOCKSIZE - 1]

\* Guess gg was probed at the index the cursor is at and was rejected, by the
\* first probe or by the confirmation probe.
Rejected(gg) ==
    \E n \in 1 .. Len(calls) :
        calls[n].i = i /\ calls[n].g = gg /\ ~calls[n].valid

\* Recovery of the block under attack is exhausted at the index of the cursor.
RecoveryExhausted ==
    /\ pc \notin {"main", "loop", "done"}
    /\ Rejected(ByteMod - 1)
    /\ \A gg \in Byte : Rejected(gg)

\* C5 (failure propagation): once every guess at an index of block k was
\* rejected, the script is on its way out of the guess loop or has exited: nothing
\* was printed as the result, attack_single_block was invoked for the blocks
\* 0..k only, only the blocks before k were returned, and after exit(1) no
\* step is taken.
FailurePropagation ==
    RecoveryExhausted =>
        /\ pc \in {"check", "check2", "next_g", "exit1"}
        /\ g = ByteMod - 1
        /\ printed = <<>>
        /\ Len(invoked) = block_num + 1
        /\ \A n \in 1 .. Len(invoked) : invoked[n].k <= block_num
        /\ Len(returned) = block_num
        /\ pc = "exit1" => ~ENABLED Next

\* Exhaustion at block 0 of a two-block ciphertext: block 1 is never attacked.
FailurePropagationWitness ==
    /\ RecoveryExhausted
    /\ pc = "exit1"
    /\ block_num = 0
    /\ len(blocks) = 2
    /\ Len(invoked) = 1

RECURSIVE ConcatAll(_)
ConcatAll(seq) ==
    IF seq = <<>> THEN Empty
    ELSE Concat(ConcatAll(SubSeq(seq, 1, Len(seq) - 1)), seq[Len(seq)])

\* C6 (driver sequencing): blocks are the consecutive BLOCKSIZE-byte pieces
\* of ct; the n-th invocation of attack_single_block is for block n-1, with
\* the IV as predecessor for block 0 and ciphertext block k-1 for block k;
\* plain is the returned blocks in increasing k, and at the end it is as long
\* as ct.
DriverSequencing ==
    pc # "main" =>
        /\ len(blocks) * BLOCKSIZE = len(ct)
        /\ \A k \in DOMAIN blocks :
             blocks[k] = [j \in 0 .. (BLOCKSIZE - 1) |-> ct[k * BLOCKSIZE + j]]
        /\ \A n \in 1 .. Len(invoked) :
             LET k == n - 1
             IN  /\ invoked[n].k = k
                 /\ invoked[n].block =
                        [j \in 0 .. (BLOCKSIZE - 1) |-> ct[k * BLOCKSIZE + j]]
                 /\ invoked[n].iv =
                        IF k = 0 THEN iv
                        ELSE [j \in 0 .. (BLOCKSIZE - 1) |-> ct[(k - 1) * BLOCKSIZE + j]]
        /\ plain = ConcatAll(returned)
        /\ len(plain) = BLOCKSIZE * Len(returned)
        /\ pc = "done" => (Len(returned) = len(blocks) /\ len(plain) = len(ct))

\* Two blocks recovered, the second with ciphertext block 0 as predecessor,
\* which is not the plaintext block recovered for block 0.
DriverSequencingWitness ==
    /\ pc = "done"
    /\ Len(invoked) = 2
    /\ invoked[1].iv = iv
    /\ invoked[2].iv = blocks[0]
    /\ invoked[2].iv # returned[1]
    /\ len(plain) = 2 * BLOCKSIZE

\* C7 (raw value of check), as claimed: the first component of every
\* decrypt_check answer of the Oracle is D_K(ct), whatever iv was supplied.
RawIsIntermediate ==
    oracle = "Oracle" =>
        \A n \in 1 .. Len(calls) : calls[n].d_k = BlockDecrypt(key, calls[n].ct)

\* The writes of the running invocation to index j of iv_list.
WritesTo(j) == {n \in 1 .. Len(writes) : writes[n].i = j}

\* C9 (write-once, back to front): inside attack_single_block with the
\* cursor at i, the writes went to BLOCKSIZE-1, BLOCKSIZE-2, ... in this
\* order; every index above i was written once and holds the value written;
\* every index below i was never written and holds 0; index i was written at
\* most once, exactly when the guess loop was left by break.
WriteOnce ==
    pc \in AttackPcs =>
        /\ \A n \in 1 .. Len(writes) : writes[n].i = BLOCKSIZE - n
        /\ \A j \in 0 .. (BLOCKSIZE - 1) :
             /\ j > i => /\ Cardinality(WritesTo(j)) = 1
                         /\ \A n \in WritesTo(j) : iv_list[j] = writes[n].v
             /\ j < i => (WritesTo(j) = {} /\ iv_list[j] = 0)
             /\ j = i => /\ Cardinality(WritesTo(j)) = (IF pc = "next_i" THEN 1 ELSE 0)
                         /\ \A n \in WritesTo(j) : iv_list[j] = writes[n].v

\* The cursor reached index 0 after a false positive at the last index; all
\* the indices above 0 are written.
WriteOnceWitness ==
    /\ pc = "probe"
    /\ i = 0
    /\ g > 0
    /\ Len(writes) = BLOCKSIZE - 1
    /\ \E n \in 1 .. Len(calls) : calls[n].confirm /\ ~calls[n].valid
    /\ \E j \in 1 .. (BLOCKSIZE - 1) : iv_list[j] # 0

\* C10 (probe IV shape): every first probe of the running invocation, sent
\* for index i with guess g, is an IV of BLOCKSIZE bytes for the block under
\* attack, with 0 below i, g at i, and above i the byte stored for that
\* index XORed with BLOCKSIZE - i.
ProbeShape ==
    pc \in AttackPcs =>
        \A n \in 1 .. Len(calls) :
            LET c == calls[n]
            IN  ~c.confirm =>
                    /\ c.ct = arg_block
                    /\ DOMAIN c.iv = 0 .. (BLOCKSIZE - 1)
                    /\ \A j \in 0 .. (BLOCKSIZE - 1) :
                         /\ j < c.i => c.iv[j] = 0
                         /\ j = c.i => c.iv[j] = c.g
                         /\ j > c.i =>
                              \E w \in WritesTo(j) :
                                  c.iv[j] = ByteXor(writes[w].v, BLOCKSIZE - c.i)

\* A first probe for index 0 with a guess above 0, after a nonzero byte was
\* stored for the last index.
ProbeShapeWitness ==
    /\ pc = "check"
    /\ i = 0
    /\ g > 0
    /\ ~calls[Len(calls)].confirm
    /\ calls[Len(calls)].iv = iv1
    /\ iv_list[BLOCKSIZE - 1] # 0
    /\ iv1[BLOCKSIZE - 1] = ByteXor(iv_list[BLOCKSIZE - 1], BLOCKSIZE)

\* The decrypt_check calls of the client's log.
Checks == {n \in 1 .. Len(log) : log[n].op = "decrypt_check"}

\* C8 (determinism of check): on one Oracle object, two decrypt_check calls
\* with the same ciphertext and the same iv gave the same (d_k, valid),
\* whatever was called in between, and after every call the oracle's key is
\* the key it has now: no call changed it.
CheckDeterminism ==
    /\ \A a \in Checks, b \in Checks :
         (log[a].ct = log[b].ct /\ log[a].iv = log[b].iv) =>
             (log[a].d_k = log[b].d_k /\ log[a].valid = log[b].valid)
    /\ \A n \in 1 .. Len(log) : log[n].key = key

\* The same block checked with the same iv before and after an encrypt call.
CheckDeterminismWitness ==
    /\ Len(log) = 3
    /\ log[1].op = "decrypt_check"
    /\ log[2].op = "encrypt"
    /\ log[3].op = "decrypt_check"
    /\ log[3].ct = log[1].ct /\ log[3].iv = log[1].iv
    /\ log[3].d_k = log[1].d_k /\ log[3].valid = log[1].valid

\* C4 (block independence): when the blocks of a ciphertext were recovered
\* in any order, with the oracle calls of different blocks interleaved, each
\* with its correct predecessor, the blocks placed at their positions are the
\* plaintext the sequential driver produced for the same key, IV and
\* ciphertext.
BlockIndependence ==
    pc = "done_any" =>
        /\ ConcatPlaced(len(blocks)) = plain
        /\ printed = <<plain, plain>>

\* Block 1 was started first, suspended, and finished after block 0.
BlockIndependenceWitness ==
    /\ pc = "done_any"
    /\ len(blocks) = 2
    /\ Len(invoked) = 4
    /\ invoked[3].k = 1
    /\ invoked[4].k = 0
    /\ returned[3] = placed[0]
    /\ returned[4] = placed[1]
    /\ placed[0] # placed[1]

\* The iv_list the attack holds at index ii when every byte above ii is the
\* true intermediate byte of d.
TrueAbove(d, ii) == [j \in 0 .. (BLOCKSIZE - 1) |-> IF j > ii THEN d[j] ELSE 0]

\* C11 as stated (false positive below the last index): once the attack has
\* accepted a guess at an index below the last one on the Oracle's answer to
\* the first probe alone, there are a key, a ciphertext block, an index
\* i # BLOCKSIZE - 1 and a guess g that the Oracle reports valid at i although
\* g XOR (BLOCKSIZE - i) is not D_K(C)[i].
FalsePositiveBelowLast ==
    (oracle = "Oracle" /\ pc = "next_i" /\ i # BLOCKSIZE - 1) =>
        \E k \in Keys, c \in [0 .. (BLOCKSIZE - 1) -> Byte],
           ii \in 0 .. (BLOCKSIZE - 2), gg \in Byte :
            LET d == BlockDecrypt(k, c)
            IN  /\ Oracle_decrypt_check(k, c,
                                        BuildIV1(TrueAbove(d, ii), ii, gg)).valid
                /\ ByteXor(gg, BLOCKSIZE - ii) # d[ii]

\* C11 (no false positive below the last index): against the Oracle, every
\* byte stored at an index i # BLOCKSIZE - 1 is the true intermediate byte
\* D_K(C)[i], although the valid answer was accepted without a confirmation
\* probe; at such an index exactly one guess is valid.
NoFalsePositiveBelowLast ==
    (oracle = "Oracle" /\ pc \in AttackPcs) =>
        /\ \A n \in 1 .. Len(writes) :
              writes[n].i # BLOCKSIZE - 1 => writes[n].v = TrueD[writes[n].i]
        /\ \A n \in 1 .. Len(calls) :
              (calls[n].i # BLOCKSIZE - 1 /\ calls[n].valid) =>
                  ByteXor(calls[n].g, BLOCKSIZE - calls[n].i) = TrueD[calls[n].i]

\* An index below the last one was solved by a guess that is not the first,
\* accepted on the first probe's answer alone.
NoFalsePositiveBelowLastWitness ==
    /\ oracle = "Oracle"
    /\ pc = "next_i"
    /\ i = 0
    /\ g > 0
    /\ Len(writes) = BLOCKSIZE
    /\ writes[BLOCKSIZE].i = 0
    /\ calls[Len(calls)].i = 0
    /\ calls[Len(calls)].valid
    /\ ~calls[Len(calls)].confirm
    /\ iv_list = TrueD

\* The first probes of index j among the calls, and the confirmation probes.
FirstProbesAt(j) == {n \in 1 .. Len(calls) : calls[n].i = j /\ ~calls[n].confirm}
Confirmations == {n \in 1 .. Len(calls) : calls[n].confirm}

\* C12 as stated (call budget): with the Oracle, one invocation of
\* attack_single_block makes at most BLOCKSIZE x 256 calls of decrypt_check,
\* confirmation probes included.
CallBudget ==
    oracle = "Oracle" => Len(calls) <= BLOCKSIZE * ByteMod

\* C12 (call budget): with the Oracle, one invocation of attack_single_block
\* makes at most 256 first probes per index and at most two confirmation
\* probes, and at most BLOCKSIZE x 256 + 1 calls of decrypt_check in total.
CallBudgetPlusOne ==
    oracle = "Oracle" =>
        /\ Len(calls) <= BLOCKSIZE * ByteMod + 1
        /\ \A j \in 0 .. (BLOCKSIZE - 1) : Cardinality(FirstProbesAt(j)) <= ByteMod
        /\ Cardinality(Confirmations) <= 2

\* A block whose every index needs the last guess: BLOCKSIZE x 256 first
\* probes and one confirmation probe.
CallBudgetPlusOneWitness ==
    /\ oracle = "Oracle"
    /\ pc = "next_i"
    /\ i = 0
    /\ Len(calls) = BLOCKSIZE * ByteMod + 1
    /\ Cardinality(Confirmations) = 1

\* C13 (confirmation probe): a confirmation call is made at index
\* BLOCKSIZE - 1 only and directly after a first probe of the same block and
\* guess that was reported valid; its IV is that first probe's IV except at
\* index BLOCKSIZE - 2, where the byte is the first probe's byte plus 1 modulo
\* 256; when it is answered, iv_list, i, g and iv1 are what they were at the
\* first probe. Below BLOCKSIZE - 1 a valid answer is accepted at once: no
\* other call is made for that index and g XOR (BLOCKSIZE - i) is stored.
ConfirmationProbe ==
    pc \in AttackPcs =>
        /\ \A n \in 1 .. Len(calls) :
              calls[n].confirm =>
                  /\ n > 1
                  /\ calls[n].i = BLOCKSIZE - 1
                  /\ ~calls[n - 1].confirm
                  /\ calls[n - 1].valid
                  /\ calls[n - 1].i = BLOCKSIZE - 1
                  /\ calls[n - 1].g = calls[n].g
                  /\ calls[n - 1].ct = calls[n].ct
                  /\ len(calls[n].iv) = BLOCKSIZE
                  /\ \A j \in 0 .. (BLOCKSIZE - 1) :
                        calls[n].iv[j] =
                            IF j = BLOCKSIZE - 2
                            THEN (calls[n - 1].iv[j] + 1) % ByteMod
                            ELSE calls[n - 1].iv[j]
        /\ pc = "check2" =>
              /\ Len(calls) > 1
              /\ calls[Len(calls)].confirm
              /\ i = BLOCKSIZE - 1
              /\ g = calls[Len(calls) - 1].g
              /\ iv1 = calls[Len(calls) - 1].iv
              /\ iv_list = Repeat(0, BLOCKSIZE)
              /\ writes = <<>>
        /\ \A n \in 1 .. Len(calls) :
              (calls[n].valid /\ calls[n].i # BLOCKSIZE - 1) =>
                  /\ ~calls[n].confirm
                  /\ \A k \in (n + 1) .. Len(calls) : calls[k].i < calls[n].i
                  /\ IF n = Len(calls) /\ pc = "check"
                     THEN WritesTo(calls[n].i) = {}
                     ELSE \E w \in WritesTo(calls[n].i) :
                            writes[w].v = ByteXor(calls[n].g, BLOCKSIZE - calls[n].i)

\* A recovery with one confirmation that failed and one that succeeded, and
\* with every index below the last accepted on its first valid answer.
ConfirmationProbeWitness ==
    /\ oracle = "Oracle"
    /\ pc = "next_i"
    /\ i = 0
    /\ Cardinality(Confirmations) = 2
    /\ Len(writes) = BLOCKSIZE
    /\ \E n \in Confirmations : ~calls[n].valid

\* The first probe n was rejected: reported invalid, or, at the last index,
\* reported valid and then not confirmed.
ProbeRejected(n) ==
    \/ ~calls[n].valid
    \/ /\ calls[n].i = BLOCKSIZE - 1
       /\ n < Len(calls)
       /\ calls[n + 1].confirm
       /\ ~calls[n + 1].valid

\* The first probe n was accepted: reported valid and, at the last index,
\* confirmed.
ProbeAccepted(n) ==
    /\ calls[n].valid
    /\ calls[n].i = BLOCKSIZE - 1 =>
          (n < Len(calls) /\ calls[n + 1].confirm /\ calls[n + 1].valid)

\* C14 (first match wins): at every index the first probes carry the guesses
\* 0, 1, 2, ... in this order, each once; the byte stored at an index comes
\* from the last guess probed there, that guess was accepted, every guess
\* below it was probed and rejected, and no guess above it is probed.
FirstMatchWins ==
    pc \in AttackPcs =>
        /\ \A j \in 0 .. (BLOCKSIZE - 1) :
              \A n \in FirstProbesAt(j) :
                  calls[n].g = Cardinality({k \in FirstProbesAt(j) : k < n})
        /\ \A w \in 1 .. Len(writes) :
              LET j == writes[w].i
                  ga == Cardinality(FirstProbesAt(j)) - 1
              IN  /\ ga >= 0
                  /\ writes[w].v = ByteXor(ga, BLOCKSIZE - j)
                  /\ \A n \in FirstProbesAt(j) :
                        IF calls[n].g = ga THEN ProbeAccepted(n) ELSE ProbeRejected(n)

\* Every index was solved by a guess that is not the first one.
FirstMatchWinsWitness ==
    /\ oracle = "Oracle"
    /\ pc = "next_i"
    /\ i = 0
    /\ Len(writes) = BLOCKSIZE
    /\ \A j \in 0 .. (BLOCKSIZE - 1) : Cardinality(FirstProbesAt(j)) > 1

\* C16 (no exhaustion against the Oracle): for every key and block, the
\* attack on the Oracle never reaches exit(1) and never leaves the guesses of
\* an index with the last guess rejected: at every index some guess is
\* accepted.
NoExhaustion ==
    oracle = "Oracle" =>
        /\ pc # "exit1"
        /\ ~(pc = "next_g" /\ g = ByteMod - 1)
        /\ pc \in {"loop", "done"} /\ invoked # <<>> =>
              /\ Len(writes) = BLOCKSIZE
              /\ \A j \in 0 .. (BLOCKSIZE - 1) : WritesTo(j) # {}

\* A block was recovered whose every index was accepted at the last guess.
NoExhaustionWitness ==
    /\ oracle = "Oracle"
    /\ pc = "done"
    /\ Len(returned) = 1
    /\ \A j \in 0 .. (BLOCKSIZE - 1) :
          Cardinality(FirstProbesAt(j)) = ByteMod

\* The steps attack_single_block has left at most, counted in positions: it
\* is 0 outside attack_single_block.
AttackRank ==
    IF pc \in AttackPcs
    THEN ((i + 1) * ByteMod + (ByteMod - 1 - g)) * 6
         + (CASE pc = "probe" -> 5
              [] pc = "check" -> 4
              [] pc = "check2" -> 3
              [] pc = "next_g" -> 2
              [] OTHER -> 1)
    ELSE 0

\* A step of attack_single_block lowers AttackRank and stays in
\* attack_single_block, returns to the driver or ends the script by exit(1).
RankLowered ==
    pc \in AttackPcs =>
        (AttackRank' < AttackRank /\ pc' \in AttackPcs \cup {"loop", "exit1"})

\* attack_single_block can take a step: at a first probe the oracle gives an
\* answer, elsewhere one of the steps after an answer is enabled.
CanStep ==
    IF pc = "probe"
    THEN Answers(arg_block, BuildIV1(iv_list, i, g), i, g) # {}
    ELSE ENABLED (Reject \/ Think \/ Confirmed \/ Fail \/ Found \/ NextGuess
                    \/ Exhausted \/ NextIndex \/ Return)

\* C15 (termination under any oracle): whatever the oracle answers, one
\* invocation of attack_single_block makes at most 256 x (BLOCKSIZE + 1) calls
\* of decrypt_check, can always take a step while it is running, and every
\* step of it lowers AttackRank, which is never negative: it has no state from
\* which it probes forever, and it ends by returning or by exit(1).
TerminationAnyOracle ==
    /\ [](Len(calls) <= ByteMod * (BLOCKSIZE + 1))
    /\ [](AttackRank >= 0)
    /\ [](pc \in AttackPcs => CanStep)
    /\ [][RankLowered]_vars

\* The arbitrary oracle made the attack use its whole budget of calls.
TerminationAnyOracleWitness ==
    /\ oracle = "Arbitrary"
    /\ pc \in {"next_i", "next_g"}
    /\ i = 0
    /\ Len(calls) = ByteMod * (BLOCKSIZE + 1)

\* A call of the history without the raw value it returned: the probe sent
\* and the valid bit received.
ProbeOf(c) ==
    [ct |-> c.ct, iv |-> c.iv, valid |-> c.valid, confirm |-> c.confirm,
     i |-> c.i, g |-> c.g]

\* The second run is inside attack_single_block or after it.
SecondRunStarted == run1 # <<>> /\ Len(invoked) = 2

\* C17 (only the valid bit is used): a second run on the same key, block and
\* predecessor, against an oracle with the same valid bits and other raw
\* values, sends the probes of the first run in the same order, never fails,
\* and ends with the same iv_list and the same plain.
OnlyValidBitUsed ==
    (SecondRunStarted /\ oracle # run1.oracle) =>
        /\ Len(calls) <= Len(run1.calls)
        /\ \A n \in 1 .. Len(calls) : ProbeOf(calls[n]) = ProbeOf(run1.calls[n])
        /\ pc # "exit1"
        /\ pc \in {"loop", "done"} =>
              /\ Len(calls) = Len(run1.calls)
              /\ iv_list = run1.iv_list
              /\ returned[2] = returned[1]
        /\ pc = "done" => plain = run1.plain

\* A second run against the other oracle has ended; the raw values of the two
\* runs differ at a call, the results do not.
OnlyValidBitUsedWitness ==
    /\ SecondRunStarted
    /\ run1.oracle = "Oracle"
    /\ oracle = "RawHidden"
    /\ pc = "done"
    /\ Len(calls) > BLOCKSIZE
    /\ \E n \in 1 .. Len(calls) : calls[n].d_k # run1.calls[n].d_k
    /\ plain = run1.plain

\* C18 (the predecessor only enters the final XOR): a second run on the same
\* oracle and block with another predecessor makes the calls of the first run
\* in the same order and ends as the first run did, with the same iv_list;
\* each result is XOR(iv_list, predecessor), so the two results differ by the
\* XOR of the two predecessors.
PredecessorOnlyInXor ==
    (SecondRunStarted /\ iv # run1.iv) =>
        /\ oracle = run1.oracle
        /\ Len(calls) <= Len(run1.calls)
        /\ \A n \in 1 .. Len(calls) : calls[n] = run1.calls[n]
        /\ pc = "exit1" => (run1.pc = "exit1" /\ calls = run1.calls)
        /\ pc \in {"loop", "done"} =>
              /\ run1.pc = "done"
              /\ calls = run1.calls
              /\ iv_list = run1.iv_list
              /\ returned[2] = xor(iv_list, iv)
              /\ returned[1] = xor(iv_list, run1.iv)
              /\ xor(returned[2], returned[1]) = xor(iv, run1.iv)
        /\ pc = "done" =>
              /\ plain = returned[2]
              /\ run1.plain = returned[1]

\* A second run with another predecessor has ended with another result.
PredecessorOnlyInXorWitness ==
    /\ SecondRunStarted
    /\ oracle = "Oracle"
    /\ iv # run1.iv
    /\ pc = "done"
    /\ Len(calls) > BLOCKSIZE
    /\ plain # run1.plain
    /\ xor(plain, run1.plain) = xor(iv, run1.iv)

====
